---- MODULE Spec2Model ----
(***************************************************************************)
(* go-clusterbulb: the polling scheduler of main(), the three ticker       *)
(* driven tasks (haUpdateBulb, clusterChecks, ghPullRequestsCheck), the    *)
(* issue registry (knownIssues), the error budget (HandleError) and the    *)
(* ntfy alert (SendNtfyAlert), as written in go-clusterbulb.go.            *)
(*                                                                         *)
(* The program writes time.Now() into knownIssues and into every Issue and *)
(* never reads it back: the model keeps the keys of knownIssues and leaves  *)
(* the Timestamp of an Issue out. The LastTimestamp of an event is kept as  *)
(* its age in seconds when the pass lists it.                              *)
(***************************************************************************)
EXTENDS Integers, Sequences, FiniteSets, TLC

\* ---------------------------------------------------------------- bounds

\* Number of pull-request polls recorded by the poll history (SpecPoll).
MaxPolls == 5

\* Length of the longest run of emitter ticks that is counted.
MaxBlink == 2

\* ------------------------------------------------------ program constants

errorLimit == 5

haLightBrightness == 255

\* since := time.Now().Add(-10 * time.Second), in seconds.
Lookback == 10

\* time.Since(last) < 5*time.Minute, in seconds.
DedupWindow == 300

\* http.StatusOK
StatusOK == 200

\* Priority: 3 in the NtfyOptions literal of ghPullRequestsCheck.
ntfyOptsPriority == 3

ntfyPriorityMin == 1

ntfyPriorityMax == 5

\* resp.StatusCode >= 300 is an error of SendNtfyAlert.
ntfyStatusLimit == 300

\* Exit status of os.Exit(1) and of log.Fatalf.
ExitFailure == 1

\* Exit status of the Go runtime's "all goroutines are asleep - deadlock!".
ExitDeadlock == 2

\* ----------------------------------------------------------- cluster states

Healthy == "healthy"

PullRequestsOpen == "pull_requests_open"

IssuesDetected == "issues_detected"

Both == "pull_requests_open|issues_detected"

ClusterStates == {Healthy, PullRequestsOpen, IssuesDetected, Both}

Green == <<0, 255, 0>>

Blue == <<0, 0, 255>>

Red == <<255, 0, 0>>

\* ------------------------------------------------------------------- tasks

Emit == "haUpdateBulb"

Collect == "clusterChecks"

Poll == "ghPullRequestsCheck"

Tasks == {Emit, Collect, Poll}

VARIABLES
    \* configuration read from the environment by main()
    haToken, haUrl, haLightEntityId, ghOwner, ghRepo, ntfyUrlEnv, ntfyTopicEnv,
    \* the shared fields
    knownIssues, clusterState, ghPRState, haLastColorState, pullRequests,
    errorCount,
    \* the scheduler: the goroutine's position, each task's position, the
    \* tickers, the exit status of the process (<<>> while it runs)
    sched, pc, tickers, exitCode,
    \* locals of the running clusterChecks
    nodeIssues, podIssues, eventIssues, totalIssues,
    \* the color of the latest emitter tick and the number of ticks in a row,
    \* up to the latest, that saw the state Both
    haArgs, blinkRun,
    \* what the task the loop called last has put out so far: the commands to
    \* the bulb, the alerts raised and sent, the outcome of the fetch, and
    \* whether the latest listing of the pass failed
    haOut, ntfyCalls, ntfyOut, ntfyErr, pollResult, listFailed,
    \* the options of the latest call of SendNtfyAlert and the pull requests
    \* the latest poll decoded
    ntfyIn, fetched,
    \* history of the PR flag after each poll and the polls that alerted
    flagTrace, ntfyAt,
    \* history of the collection passes: for each key the verdict of the
    \* latest consideration of it, and the listings of the latest pass that
    \* failed
    lastVerdict, passFailures

envVars == <<haToken, haUrl, haLightEntityId, ghOwner, ghRepo, ntfyUrlEnv, ntfyTopicEnv>>

sharedVars == <<knownIssues, clusterState, ghPRState, pullRequests>>

schedVars == <<sched, pc, tickers, exitCode>>

passVars == <<nodeIssues, podIssues, eventIssues>>

emitVars == <<haLastColorState, haArgs, blinkRun>>

outVars == <<haOut, ntfyCalls, ntfyOut, ntfyErr, pollResult, listFailed, totalIssues,
            ntfyIn, fetched>>

histVars == <<flagTrace, ntfyAt, lastVerdict, passFailures>>

vars == <<envVars, sharedVars, errorCount, schedVars, passVars, emitVars, outVars,
          histVars>>


\* ------------------------------------------------------- issue registry

\* Issue{Key, Type, Message, Timestamp: time.Now()}
Issue(key, type, msg) == [Key |-> key, Type |-> type, Message |-> msg]

\* knownIssues[key] = time.Now(): reg is the set of the map's keys.
reportIssue(reg, key) == reg \cup {key}

\* A clear whose delete is left out.
clearIssueKept(reg, key) == reg

\* A clear that empties the map instead of deleting one key.
clearIssueAll(reg, key) == {}

\* delete(knownIssues, key)
clearIssue(reg, key) == reg \ {key}

\* ----------------------------------------------- what the cluster can return

NodeNames == {"worker-1"}

NodeConditionLists ==
    { <<>>,
      <<[Type |-> "Ready", Status |-> "True"]>>,
      <<[Type |-> "Ready", Status |-> "False"]>>,
      <<[Type |-> "MemoryPressure", Status |-> "False"]>> }

Nodes == [Name : NodeNames, Conditions : NodeConditionLists]

Pod(phase, containers) ==
    [Namespace |-> "ns1", Name |-> "pod-a", Phase |-> phase,
     ContainerStatuses |-> containers]

Pods ==
    { Pod("Succeeded", <<>>),
      Pod("Running", <<>>),
      Pod("Running", <<[Ready |-> TRUE]>>),
      Pod("Running", <<[Ready |-> TRUE], [Ready |-> FALSE]>>),
      Pod("Pending", <<[Ready |-> FALSE]>>) }

\* The events a listing can hold: a warning of this instant about the pod,
\* about the node and about an object of another kind whose key is the pod
\* event's, an event of this instant that is no warning, and a warning that
\* is twenty seconds old. Age is time.Since(e.LastTimestamp.Time).
Event(type, age, ns, kind, name, reason) ==
    [Type |-> type, Age |-> age, Namespace |-> ns,
     InvolvedObject |-> [Kind |-> kind, Name |-> name], Reason |-> reason,
     Message |-> "msg"]

podEvent == Event("Warning", 0, "ns1", "Pod", "pod-a", "BackOff")

nodeEvent == Event("Warning", 0, "default", "Node", "worker-1", "NodeNotReady")

jobEvent == Event("Warning", 0, "ns1", "Job", "pod-a", "BackOff")

normalEvent == Event("Normal", 0, "ns1", "Pod", "pod-a", "BackOff")

oldEvent == Event("Warning", 20, "ns1", "Pod", "pod-a", "BackOff")

\* A List call: an error, or the items.
Listing(items) == [err |-> FALSE, items |-> items]

ListingError == [err |-> TRUE, items |-> <<>>]

NodeListings == {ListingError, Listing(<<>>)} \cup {Listing(<<n>>) : n \in Nodes}

PodListings == {ListingError, Listing(<<>>)} \cup {Listing(<<p>>) : p \in Pods}

\* One event of each sort, and the pairs that share a key (the second is a
\* duplicate within the pass), follow an event that is skipped, or have two
\* keys.
EventListings ==
    { ListingError, Listing(<<>>),
      Listing(<<podEvent>>), Listing(<<nodeEvent>>),
      Listing(<<jobEvent>>), Listing(<<normalEvent>>),
      Listing(<<oldEvent>>),
      Listing(<<podEvent, jobEvent>>),
      Listing(<<jobEvent, podEvent>>),
      Listing(<<oldEvent, podEvent>>),
      Listing(<<nodeEvent, jobEvent>>) }

\* A Get call: an error, or the object.
NoObject == [Name |-> ""]

GetError == [err |-> TRUE, obj |-> NoObject]

NodeGets == {GetError} \cup {[err |-> FALSE, obj |-> n] : n \in Nodes}

PodGets == {GetError} \cup {[err |-> FALSE, obj |-> p] : p \in Pods}

\* --------------------------------------------------------------- collectors

\* for _, cond := range node.Status.Conditions {
\*     if cond.Type == v1.NodeReady && cond.Status == v1.ConditionTrue {
nodeReady(node) ==
    \E i \in DOMAIN node.Conditions :
        node.Conditions[i].Type = "Ready" /\ node.Conditions[i].Status = "True"

RECURSIVE nodesLoop(_, _)
nodesLoop(items, acc) ==
    IF items = <<>> THEN acc
    ELSE LET node == Head(items)
             key == "node/" \o node.Name
             msg == "Node " \o node.Name \o " is not ready"
         IN nodesLoop(Tail(items),
                IF nodeReady(node)
                THEN [issues |-> acc.issues, reg |-> clearIssue(acc.reg, key)]
                ELSE [issues |-> Append(acc.issues, Issue(key, "Node", msg)),
                      reg |-> reportIssue(acc.reg, key)])

\* A node collector that fails closed: a listing error forgets the issues.
checkNodesFailClosed(listing, reg) ==
    IF listing.err THEN [issues |-> <<>>, reg |-> {}]
    ELSE nodesLoop(listing.items, [issues |-> <<>>, reg |-> reg])

checkNodes(listing, reg) ==
    IF listing.err THEN [issues |-> <<>>, reg |-> reg]
    ELSE nodesLoop(listing.items, [issues |-> <<>>, reg |-> reg])

\* allReady of checkPods
allReady(pod) ==
    \A i \in DOMAIN pod.ContainerStatuses : pod.ContainerStatuses[i].Ready

RECURSIVE podsLoop(_, _)
podsLoop(items, acc) ==
    IF items = <<>> THEN acc
    ELSE LET pod == Head(items)
             name == pod.Namespace \o "/" \o pod.Name
             key == "pod/" \o name
             report(msg) ==
                 [issues |-> Append(acc.issues, Issue(key, "Pod", msg)),
                  reg |-> reportIssue(acc.reg, key)]
             clear == [issues |-> acc.issues, reg |-> clearIssue(acc.reg, key)]
         IN podsLoop(Tail(items),
                CASE pod.Phase = "Succeeded" -> clear
                  [] pod.Phase = "Running" ->
                        IF allReady(pod) THEN clear
                        ELSE report("Pod " \o name \o " has containers not ready")
                  [] OTHER ->
                        report("Pod " \o name \o " in unexpected phase: " \o pod.Phase))

\* A pod collector whose clears are lost.
checkPodsNoClear(listing, reg) ==
    IF listing.err THEN [issues |-> <<>>, reg |-> reg]
    ELSE LET r == podsLoop(listing.items, [issues |-> <<>>, reg |-> reg])
         IN [issues |-> r.issues, reg |-> r.reg \cup reg]

checkPods(listing, reg) ==
    IF listing.err THEN [issues |-> <<>>, reg |-> reg]
    ELSE podsLoop(listing.items, [issues |-> <<>>, reg |-> reg])

isResourceUnhealthy(e, getPod, getNode) ==
    CASE e.InvolvedObject.Kind = "Pod" ->
            IF getPod.err THEN TRUE
            ELSE IF getPod.obj.Phase = "Succeeded" THEN FALSE
            ELSE IF getPod.obj.Phase = "Running"
                 THEN \E i \in DOMAIN getPod.obj.ContainerStatuses :
                          ~getPod.obj.ContainerStatuses[i].Ready
            ELSE TRUE
      [] e.InvolvedObject.Kind = "Node" ->
            IF getNode.err THEN TRUE
            ELSE \E i \in DOMAIN getNode.obj.Conditions :
                     /\ getNode.obj.Conditions[i].Type = "Ready"
                     /\ getNode.obj.Conditions[i].Status # "True"
      [] OTHER -> TRUE

\* acc.seen is the map seen, from a key to the age of the LastTimestamp
\* stored for it.
RECURSIVE eventsLoop(_, _, _, _)
eventsLoop(items, acc, getPod, getNode) ==
    IF items = <<>> THEN acc
    ELSE LET e == Head(items)
             name == e.Namespace \o "/" \o e.InvolvedObject.Name
             key == name \o ":" \o e.Reason
             msg == name \o ": " \o e.Reason \o " - " \o e.Message
             seen == [k \in (DOMAIN acc.seen) \cup {key} |->
                         IF k = key THEN e.Age ELSE acc.seen[k]]
         IN eventsLoop(Tail(items),
                IF e.Type # "Warning" THEN acc
                ELSE IF e.Age > Lookback THEN acc
                ELSE IF key \in DOMAIN acc.seen /\ acc.seen[key] < DedupWindow
                     THEN acc
                ELSE IF ~isResourceUnhealthy(e, getPod, getNode)
                     THEN [issues |-> acc.issues, seen |-> seen,
                           reg |-> clearIssue(acc.reg, key)]
                ELSE [issues |-> Append(acc.issues, Issue(key, "Event", msg)),
                      seen |-> seen, reg |-> reportIssue(acc.reg, key)],
                getPod, getNode)

checkEvents(listing, getPod, getNode, reg) ==
    IF listing.err THEN [issues |-> <<>>, reg |-> reg]
    ELSE LET r == eventsLoop(listing.items,
                      [issues |-> <<>>, seen |-> <<>>, reg |-> reg],
                      getPod, getNode)
         IN [issues |-> r.issues, reg |-> r.reg]

\* A derivation that forgets the PR flag once issues are found.
deriveStateNoBoth(total, prState) ==
    IF total = 0
    THEN IF prState = "open" THEN PullRequestsOpen ELSE Healthy
    ELSE IssuesDetected

\* The state derivation at the end of clusterChecks.
deriveState(total, prState) ==
    IF total = 0
    THEN IF prState = "open" THEN PullRequestsOpen ELSE Healthy
    ELSE IF prState = "open" THEN Both ELSE IssuesDetected


\* ----------------------------------------------------------- error budget

\* An error budget that ends the process one failure late.
HandleErrorLate(count, failed) ==
    IF ~failed THEN [errorCount |-> count, exit |-> <<>>]
    ELSE [errorCount |-> count + 1,
          exit |-> IF count + 1 > errorLimit THEN <<ExitFailure>> ELSE <<>>]

\* HandleError(msg, err): failed is err != nil. The result is the new
\* errorCount and the exit status the call ends the process with, if any.
HandleError(count, failed) ==
    IF ~failed THEN [errorCount |-> count, exit |-> <<>>]
    ELSE [errorCount |-> count + 1,
          exit |-> IF count + 1 >= errorLimit THEN <<ExitFailure>> ELSE <<>>]

\* ------------------------------------------------------------------- ntfy

\* The NtfyOptions literal of ghPullRequestsCheck: Server and Topic are unset.
ntfyOpts ==
    [Server |-> "", Topic |-> "", Title |-> "ntfyTitle Text",
     Priority |-> ntfyOptsPriority, Icon |-> "", Tags |-> ""]

\* What http.DefaultClient.Do can give SendNtfyAlert: a transport error or a
\* response status.
NtfyReplies == {[err |-> TRUE, status |-> 0], [err |-> FALSE, status |-> 200],
                [err |-> FALSE, status |-> 500]}

\* A SendNtfyAlert that does not validate the priority.
SendNtfyAlertAnyPriority(message, opts, envUrl, envTopic, reply) ==
    LET server1 == IF opts.Server = "" THEN envUrl ELSE opts.Server
        server2 == IF opts.Topic = "" THEN envTopic ELSE server1
        request == [url |-> server2 \o "/" \o opts.Topic, body |-> message,
                    Title |-> opts.Title, Priority |-> opts.Priority]
    IN IF server1 = "" THEN [err |-> "", sent |-> <<>>]
       ELSE IF opts.Topic = ""
            THEN [err |-> "ntfy topic cannot be empty", sent |-> <<>>]
       ELSE IF reply.err
            THEN [err |-> "failed to send ntfy request", sent |-> <<request>>]
       ELSE IF reply.status >= ntfyStatusLimit
            THEN [err |-> "ntfy returned unexpected status", sent |-> <<request>>]
       ELSE [err |-> "", sent |-> <<request>>]

\* SendNtfyAlert(message, opts) with the environment's NTFY_URL and NTFY_TOPIC
\* and the reply of the server: the error returned ("" is nil) and the
\* requests that were sent.
SendNtfyAlert(message, opts, envUrl, envTopic, reply) ==
    LET server1 == IF opts.Server = "" THEN envUrl ELSE opts.Server
        \* if opts.Topic == "" { opts.Server = os.Getenv("NTFY_TOPIC") }
        server2 == IF opts.Topic = "" THEN envTopic ELSE server1
        request == [url |-> server2 \o "/" \o opts.Topic, body |-> message,
                    Title |-> opts.Title, Priority |-> opts.Priority]
    IN IF server1 = "" THEN [err |-> "", sent |-> <<>>]
       ELSE IF opts.Topic = ""
            THEN [err |-> "ntfy topic cannot be empty", sent |-> <<>>]
       ELSE IF opts.Priority < ntfyPriorityMin \/ opts.Priority > ntfyPriorityMax
            THEN [err |-> "priority must be between 1 and 5", sent |-> <<>>]
       ELSE IF reply.err
            THEN [err |-> "failed to send ntfy request", sent |-> <<request>>]
       ELSE IF reply.status >= ntfyStatusLimit
            THEN [err |-> "ntfy returned unexpected status", sent |-> <<request>>]
       ELSE [err |-> "", sent |-> <<request>>]

\* ------------------------------------------------------------ environment

\* A name that makes the request URL unparsable (an invalid URL escape).
BadName == "%zz"

Environment(token, url, entity, owner, repo, nUrl, nTopic) ==
    [haToken |-> token, haUrl |-> url, haLightEntityId |-> entity,
     ghOwner |-> owner, ghRepo |-> repo, ntfyUrl |-> nUrl, ntfyTopic |-> nTopic]

\* The configurations main() can start with: everything set, and each
\* option in turn left unset or (for the URLs' parts) malformed.
Environments ==
    { Environment("tok", "http://ha:8123", "light.bulb", "clustershed", "repo",
                  "https://ntfy.sh", "clusterbulb"),
      Environment("", "http://ha:8123", "light.bulb", "clustershed", "repo",
                  "https://ntfy.sh", "clusterbulb"),
      Environment("tok", "", "light.bulb", "clustershed", "repo",
                  "https://ntfy.sh", "clusterbulb"),
      Environment("tok", "http://ha:8123", "", "clustershed", "repo",
                  "https://ntfy.sh", "clusterbulb"),
      Environment("tok", "http://ha:8123", "light.bulb", "", "repo",
                  "https://ntfy.sh", "clusterbulb"),
      Environment("tok", "http://ha:8123", "light.bulb", "clustershed", "",
                  "https://ntfy.sh", "clusterbulb"),
      Environment("tok", "http://ha:8123", "light.bulb", BadName, "repo",
                  "https://ntfy.sh", "clusterbulb"),
      Environment("tok", "http://ha:8123", "light.bulb", "clustershed", "repo",
                  "", "clusterbulb"),
      Environment("tok", "http://ha:8123", "light.bulb", "clustershed", "repo",
                  "https://ntfy.sh", ""),
      Environment("tok", BadName, "light.bulb", "clustershed", "repo",
                  "https://ntfy.sh", "clusterbulb") }

\* --------------------------------------------------------------- the state

NoIssues == {}

\* The state main() hands to its goroutine, started in one of envs.
InitIn(envs) ==
    /\ \E env \in envs :
          /\ haToken = env.haToken
          /\ haUrl = env.haUrl
          /\ haLightEntityId = env.haLightEntityId
          /\ ghOwner = env.ghOwner
          /\ ghRepo = env.ghRepo
          /\ ntfyUrlEnv = env.ntfyUrl
          /\ ntfyTopicEnv = env.ntfyTopic
    /\ knownIssues = NoIssues
    /\ clusterState = Healthy
    /\ ghPRState = "none"
    /\ haLastColorState = Healthy
    /\ pullRequests = <<>>
    /\ errorCount = 0
    /\ sched = "select"
    /\ pc = [t \in Tasks |-> "idle"]
    /\ tickers = [t \in Tasks |-> "running"]
    /\ exitCode = <<>>
    /\ nodeIssues = <<>>
    /\ podIssues = <<>>
    /\ eventIssues = <<>>
    /\ totalIssues = 0
    /\ listFailed = FALSE
    /\ haArgs = <<>>
    /\ haOut = <<>>
    /\ blinkRun = 0
    /\ ntfyCalls = 0
    /\ ntfyOut = <<>>
    /\ ntfyErr = ""
    /\ pollResult = "none"
    /\ ntfyIn = <<>>
    /\ fetched = <<>>
    /\ flagTrace = <<"none">>
    /\ ntfyAt = {}
    /\ lastVerdict = <<>>
    /\ passFailures = {}

\* Everything set; no repository owner, so that the poll is skipped; an owner
\* that makes the request URL unparsable.
Deployments ==
    { Environment("tok", "http://ha:8123", "light.bulb", "clustershed", "repo",
                  "https://ntfy.sh", "clusterbulb"),
      Environment("tok", "http://ha:8123", "light.bulb", "", "repo",
                  "https://ntfy.sh", "clusterbulb"),
      Environment("tok", "http://ha:8123", "light.bulb", BadName, "repo",
                  "https://ntfy.sh", "clusterbulb") }

\* The lighting options: all set, each in turn unset, and a base URL that
\* makes the request URL unparsable; the repository is unset or unusable, so
\* that the poll stores nothing.
EmitEnvironments ==
    { Environment(e[1], e[2], e[3], owner, "repo", "https://ntfy.sh", "clusterbulb") :
        e \in { <<"tok", "http://ha:8123", "light.bulb">>,
                <<"", "http://ha:8123", "light.bulb">>,
                <<"tok", "", "light.bulb">>,
                <<"tok", "http://ha:8123", "">>,
                <<"tok", BadName, "light.bulb">> },
        owner \in {"", BadName} }

Init == InitIn(Deployments)

InitEmit == InitIn(EmitEnvironments)

InitAny == InitIn(Environments)

\* The tasks that are executing.
running == {t \in Tasks : pc[t] # "idle"}

\* The first position of a task's body.
Entry(t) == IF t = Collect THEN "config" ELSE "run"

\* --------------------------------------------------------------- scheduler

\* The outputs of the task the loop called last, and the locals of the last
\* clusterChecks, are those of that call only.
ClearOutputs ==
    /\ haOut' = <<>>
    /\ ntfyCalls' = 0
    /\ ntfyOut' = <<>>
    /\ ntfyErr' = ""
    /\ pollResult' = "none"
    /\ listFailed' = FALSE
    /\ totalIssues' = 0
    /\ nodeIssues' = <<>>
    /\ podIssues' = <<>>
    /\ eventIssues' = <<>>
    /\ ntfyIn' = <<>>
    /\ fetched' = <<>>

\* A loop that starts the task with a go statement and goes on selecting.
DispatchAsync(t) ==
    /\ exitCode = <<>>
    /\ sched = "select"
    /\ tickers[t] = "running"
    /\ pc[t] = "idle"
    /\ pc' = [pc EXCEPT ![t] = Entry(t)]
    /\ ClearOutputs
    /\ UNCHANGED <<envVars, sharedVars, errorCount, sched, tickers, exitCode,
                   emitVars, histVars>>

\* One case of main()'s select: the ticker of task t has fired, the loop
\* calls the task and takes no other case until the call returns.
Dispatch(t) ==
    /\ exitCode = <<>>
    /\ sched = "select"
    /\ tickers[t] = "running"
    /\ sched' = "task"
    /\ pc' = [pc EXCEPT ![t] = Entry(t)]
    /\ ClearOutputs
    /\ UNCHANGED <<envVars, sharedVars, errorCount, tickers, exitCode, emitVars,
                   histVars>>

\* The task returns to the loop.
Return(t) ==
    /\ sched' = "select"
    /\ pc' = [pc EXCEPT ![t] = "idle"]

\* case <-quit: the three tickers are stopped and the goroutine returns.
Quit ==
    /\ exitCode = <<>>
    /\ sched = "select"
    /\ tickers' = [t \in Tasks |-> "stopped"]
    /\ sched' = "stopped"
    /\ ClearOutputs
    /\ UNCHANGED <<envVars, sharedVars, errorCount, pc, exitCode,  emitVars,
                   histVars>>

\* main() is left in select {} with no other goroutine: the Go runtime ends
\* the process with "all goroutines are asleep - deadlock!" (exit status 2),
\* unless a netpoll waiter keeps it from noticing, and then the process hangs.
MainBlocked ==
    /\ exitCode = <<>>
    /\ sched = "stopped"
    /\ exitCode' = <<ExitDeadlock>>
    /\ UNCHANGED <<envVars, sharedVars, errorCount, sched, pc, tickers, passVars,
                    emitVars, outVars, histVars>>

\* ----------------------------------------------------------------- emitter

\* A switch whose last case does not look at the last color.
haNextColorNoBlink(state, last) ==
    CASE state = Healthy -> [last |-> Healthy, rgb |-> Green]
      [] state = PullRequestsOpen -> [last |-> PullRequestsOpen, rgb |-> Blue]
      [] state = IssuesDetected -> [last |-> IssuesDetected, rgb |-> Red]
      [] state = Both -> [last |-> IssuesDetected, rgb |-> Red]

\* A switch with the colors of the first two cases exchanged.
haNextColorSwapped(state, last) ==
    CASE state = Healthy -> [last |-> Healthy, rgb |-> Blue]
      [] state = PullRequestsOpen -> [last |-> PullRequestsOpen, rgb |-> Green]
      [] state = IssuesDetected -> [last |-> IssuesDetected, rgb |-> Red]
      [] state = Both ->
            IF last = IssuesDetected
            THEN [last |-> PullRequestsOpen, rgb |-> Blue]
            ELSE [last |-> IssuesDetected, rgb |-> Red]

\* The switch of haUpdateBulb: the new haLastColorState and the color handed
\* to haSetBulbColors.
haNextColor(state, last) ==
    CASE state = Healthy -> [last |-> Healthy, rgb |-> Green]
      [] state = PullRequestsOpen -> [last |-> PullRequestsOpen, rgb |-> Blue]
      [] state = IssuesDetected -> [last |-> IssuesDetected, rgb |-> Red]
      [] state = Both ->
            IF last = IssuesDetected
            THEN [last |-> PullRequestsOpen, rgb |-> Blue]
            ELSE [last |-> IssuesDetected, rgb |-> Red]

\* A haSetBulbColors that skips the command only when the token is unset.
haSetBulbColorsTokenOnly(rgb, token, url, entity) ==
    IF token = "" THEN <<>>
    ELSE IF url = BadName THEN <<>>
    ELSE <<[url |-> url \o "/api/services/light/turn_on",
            Authorization |-> "Bearer " \o token,
            entity_id |-> entity, rgb_color |-> rgb,
            brightness |-> haLightBrightness]>>

\* haSetBulbColors: the commands posted to Home Assistant (none when an
\* option is unset or the request cannot be created). Errors of the
\* transport are printed and change nothing.
haSetBulbColors(rgb, token, url, entity) ==
    IF token = "" \/ url = "" \/ entity = "" THEN <<>>
    ELSE IF url = BadName THEN <<>>
    ELSE <<[url |-> url \o "/api/services/light/turn_on",
            Authorization |-> "Bearer " \o token,
            entity_id |-> entity, rgb_color |-> rgb,
            brightness |-> haLightBrightness]>>

haUpdateBulb ==
    /\ exitCode = <<>>
    /\ pc[Emit] = "run"
    /\ LET next == haNextColor(clusterState, haLastColorState)
       IN /\ haLastColorState' = next.last
          /\ haArgs' = next.rgb
          /\ haOut' = haSetBulbColors(next.rgb, haToken, haUrl, haLightEntityId)
    /\ blinkRun' = IF clusterState # Both THEN 0
                   ELSE IF blinkRun < MaxBlink THEN blinkRun + 1 ELSE MaxBlink
    /\ Return(Emit)
    /\ UNCHANGED <<envVars, sharedVars, errorCount, tickers, exitCode, passVars,
                    ntfyCalls, ntfyOut, ntfyErr, pollResult, listFailed,
                   totalIssues, ntfyIn, fetched, histVars>>

\* ---------------------------------------------------------- collection pass

\* What a step of clusterChecks before its last leaves alone, the histories
\* apart.
stepFrame ==
    UNCHANGED <<envVars, clusterState, ghPRState, pullRequests, errorCount, sched,
                tickers,  emitVars, haOut, ntfyCalls, ntfyOut, ntfyErr,
                pollResult, totalIssues, ntfyIn, fetched>>

passFrame == stepFrame /\ UNCHANGED histVars

\* rest.InClusterConfig() and kubernetes.NewForConfig(config): either can
\* fail, and log.Fatalf ends the process.
clusterChecksConfig ==
    /\ exitCode = <<>>
    /\ pc[Collect] = "config"
    /\ \E failed \in BOOLEAN :
          IF failed
          THEN /\ exitCode' = <<ExitFailure>>
               /\ UNCHANGED pc
          ELSE /\ pc' = [pc EXCEPT ![Collect] = "checkNodes"]
               /\ UNCHANGED exitCode
    /\ UNCHANGED <<knownIssues, passVars, listFailed>>
    /\ passFrame

\* nodeIssues := checkNodes(ctx, clientset), the List call returning listing.
clusterChecksNodesOn(listing) ==
    /\ exitCode = <<>>
    /\ pc[Collect] = "checkNodes"
    /\ LET r == checkNodes(listing, knownIssues)
       IN /\ nodeIssues' = r.issues
          /\ knownIssues' = r.reg
          /\ listFailed' = listing.err
    /\ pc' = [pc EXCEPT ![Collect] = "checkPods"]
    /\ UNCHANGED <<exitCode, podIssues, eventIssues>>
    /\ stepFrame

clusterChecksNodes ==
    /\ \E listing \in NodeListings : clusterChecksNodesOn(listing)
    /\ UNCHANGED histVars

\* podIssues := checkPods(ctx, clientset)
clusterChecksPodsOn(listing) ==
    /\ exitCode = <<>>
    /\ pc[Collect] = "checkPods"
    /\ LET r == checkPods(listing, knownIssues)
       IN /\ podIssues' = r.issues
          /\ knownIssues' = r.reg
          /\ listFailed' = listing.err
    /\ pc' = [pc EXCEPT ![Collect] = "checkEvents"]
    /\ UNCHANGED <<exitCode, nodeIssues, eventIssues>>
    /\ stepFrame

clusterChecksPods ==
    /\ \E listing \in PodListings : clusterChecksPodsOn(listing)
    /\ UNCHANGED histVars

\* Whether the listing holds an event about an object of this kind that the
\* loop does not skip, so that isResourceUnhealthy may have to Get it.
Refers(listing, kind) ==
    \E i \in DOMAIN listing.items :
        /\ listing.items[i].InvolvedObject.Kind = kind
        /\ listing.items[i].Type = "Warning"
        /\ listing.items[i].Age <= Lookback

\* The Get calls checkEvents can come to make on a listing.
PodGetsFor(listing) == IF Refers(listing, "Pod") THEN PodGets ELSE {GetError}

NodeGetsFor(listing) == IF Refers(listing, "Node") THEN NodeGets ELSE {GetError}

\* eventIssues := checkEvents(ctx, clientset)
clusterChecksEventsOn(listing, getPod, getNode) ==
    /\ exitCode = <<>>
    /\ pc[Collect] = "checkEvents"
    /\ LET r == checkEvents(listing, getPod, getNode, knownIssues)
       IN /\ eventIssues' = r.issues
          /\ knownIssues' = r.reg
          /\ listFailed' = listing.err
    /\ pc' = [pc EXCEPT ![Collect] = "derive"]
    /\ UNCHANGED <<exitCode, nodeIssues, podIssues>>
    /\ stepFrame

clusterChecksEvents ==
    /\ \E listing \in EventListings :
       \E getPod \in PodGetsFor(listing) :
       \E getNode \in NodeGetsFor(listing) :
          clusterChecksEventsOn(listing, getPod, getNode)
    /\ UNCHANGED histVars

\* report.TotalIssues, report.ClusterState and clusterState = report.ClusterState;
\* the call returns to the loop.
clusterChecksDerive ==
    /\ exitCode = <<>>
    /\ pc[Collect] = "derive"
    /\ LET total == Len(nodeIssues) + Len(podIssues) + Len(eventIssues)
       IN /\ totalIssues' = total
          /\ clusterState' = deriveState(total, ghPRState)
    /\ Return(Collect)
    /\ UNCHANGED <<envVars, knownIssues, ghPRState, pullRequests, errorCount, tickers,
                   exitCode, passVars,  emitVars, haOut, ntfyCalls, ntfyOut,
                   ntfyErr, pollResult, listFailed, ntfyIn, fetched, histVars>>

\* ------------------------------------------------------ pull-request poll

PullRequest(number, title) == [Number |-> number, Title |-> title]

\* The lists of open pull requests the host can return.
PRResponses ==
    { <<>>, <<PullRequest(7, "Fix")>>,
      <<PullRequest(7, "Fix"), PullRequest(9, "Add")>> }

\* What the fetch can come to: http.NewRequest fails (the URL does not
\* parse), client.Do fails, the status is not 200, the body does not decode,
\* or the list of pull requests is decoded.
Fetch(kind, status, prs) == [kind |-> kind, status |-> status, prs |-> prs]

Fetches(owner, repo) ==
    IF owner = BadName \/ repo = BadName
    THEN {Fetch("request", 0, <<>>)}
    ELSE {Fetch("transport", 0, <<>>), Fetch("status", 403, <<>>),
          Fetch("decode", StatusOK, <<>>)}
            \cup {Fetch("ok", StatusOK, prs) : prs \in PRResponses}

FetchFailed(f) ==
    \/ f.kind \in {"request", "transport", "decode"}
    \/ f.status # StatusOK

\* issues = append(issues, Issue{Key: fmt.Sprintf("pr/%d", pr.Number), ...})
prIssues(prs) ==
    [i \in 1..Len(prs) |->
        Issue("pr/" \o ToString(prs[i].Number), "PullRequest", prs[i].Title)]



\* A poll that alerts on every poll that finds pull requests open.
pollOutcomeLevel(f, prState, stored) ==
    IF FetchFailed(f)
    THEN [ghPRState |-> prState, pullRequests |-> stored, alert |-> FALSE]
    ELSE IF Len(f.prs) = 0
    THEN [ghPRState |-> "none", pullRequests |-> stored, alert |-> FALSE]
    ELSE [ghPRState |-> "open", pullRequests |-> prIssues(f.prs), alert |-> TRUE]

\* A poll that takes a failed fetch for an empty list.
pollOutcomeFailNone(f, prState, stored) ==
    IF FetchFailed(f) \/ Len(f.prs) = 0
    THEN [ghPRState |-> "none", pullRequests |-> stored, alert |-> FALSE]
    ELSE [ghPRState |-> "open", pullRequests |-> prIssues(f.prs),
          alert |-> prState = "none"]

\* A poll that alerts on the edge and leaves the flag as it was.
pollOutcomeFlagKept(f, prState, stored) ==
    IF FetchFailed(f)
    THEN [ghPRState |-> prState, pullRequests |-> stored, alert |-> FALSE]
    ELSE IF Len(f.prs) = 0
    THEN [ghPRState |-> "none", pullRequests |-> stored, alert |-> FALSE]
    ELSE [ghPRState |-> prState, pullRequests |-> prIssues(f.prs),
          alert |-> prState = "none"]

\* What the poll makes of a fetch, from line 343 on: the PR flag, the stored
\* list (pullRequests = issues is not reached on the early returns), and
\* whether SendNtfyAlert is called.
pollOutcome(f, prState, stored) ==
    IF FetchFailed(f)
    THEN [ghPRState |-> prState, pullRequests |-> stored, alert |-> FALSE]
    ELSE IF Len(f.prs) = 0
    THEN [ghPRState |-> "none", pullRequests |-> stored, alert |-> FALSE]
    ELSE LET issues == prIssues(f.prs)
         IN [ghPRState |-> IF Len(issues) > 0 THEN "open" ELSE prState,
             pullRequests |-> issues,
             alert |-> Len(issues) > 0 /\ prState = "none"]

\* An alert whose error is counted against the error budget.
ntfyFailureCounted(budget, err) ==
    IF err # "" /\ budget.exit = <<>>
    THEN HandleError(budget.errorCount, TRUE)
    ELSE budget

\* if err != nil { log.Printf("Error sending ntfy alert: %v", err) }: the
\* error count and the exit status the poll has come to are left as they are.
ntfyFailure(budget, err) == budget

\* The result of a SendNtfyAlert that is not called.
NoAlert == [err |-> "", sent |-> <<>>]

\* A poll that derives the cluster state anew from the flag it has set.
ghPullRequestsCheckEager ==
    /\ exitCode = <<>>
    /\ pc[Poll] = "run"
    /\ IF ghOwner = "" \/ ghRepo = ""
       THEN /\ pollResult' = "skipped"
            /\ Return(Poll)
            /\ UNCHANGED <<sharedVars, errorCount, exitCode, ntfyCalls, ntfyOut,
                           ntfyErr, ntfyIn, fetched>>
       ELSE \E f \in Fetches(ghOwner, ghRepo) :
            \E reply \in NtfyReplies :
            LET o == pollOutcome(f, ghPRState, pullRequests)
                message == "New open pull requests detected: "
                               \o ToString(Len(o.pullRequests))
                alert == IF o.alert
                         THEN SendNtfyAlert(message, ntfyOpts, ntfyUrlEnv,
                                            ntfyTopicEnv, reply)
                         ELSE NoAlert
                h == ntfyFailure(HandleError(errorCount, FetchFailed(f)), alert.err)
            IN /\ errorCount' = h.errorCount
               /\ exitCode' = h.exit
               /\ pollResult' = f.kind
               /\ fetched' = f.prs
               /\ ghPRState' = o.ghPRState
               /\ pullRequests' = o.pullRequests
               /\ ntfyCalls' = IF o.alert THEN 1 ELSE 0
               /\ ntfyIn' = IF o.alert THEN <<ntfyOpts>> ELSE <<>>
               /\ ntfyOut' = alert.sent
               /\ ntfyErr' = alert.err
               /\ IF h.exit = <<>> THEN Return(Poll) ELSE UNCHANGED <<sched, pc>>
               /\ clusterState' =
                     deriveState(IF clusterState \in {IssuesDetected, Both}
                                 THEN 1 ELSE 0, o.ghPRState)
               /\ UNCHANGED knownIssues
    /\ UNCHANGED <<envVars, tickers, passVars, emitVars, haOut, listFailed,
                   totalIssues>>

ghPullRequestsCheck ==
    /\ exitCode = <<>>
    /\ pc[Poll] = "run"
    /\ IF ghOwner = "" \/ ghRepo = ""
       THEN /\ pollResult' = "skipped"
            /\ Return(Poll)
            /\ UNCHANGED <<sharedVars, errorCount, exitCode, ntfyCalls, ntfyOut,
                           ntfyErr, ntfyIn, fetched>>
       ELSE \E f \in Fetches(ghOwner, ghRepo) :
            \E reply \in NtfyReplies :
            LET o == pollOutcome(f, ghPRState, pullRequests)
                message == "New open pull requests detected: "
                               \o ToString(Len(o.pullRequests))
                alert == IF o.alert
                         THEN SendNtfyAlert(message, ntfyOpts, ntfyUrlEnv,
                                            ntfyTopicEnv, reply)
                         ELSE NoAlert
                h == ntfyFailure(HandleError(errorCount, FetchFailed(f)), alert.err)
            IN /\ errorCount' = h.errorCount
               /\ exitCode' = h.exit
               /\ pollResult' = f.kind
               /\ fetched' = f.prs
               /\ ghPRState' = o.ghPRState
               /\ pullRequests' = o.pullRequests
               /\ ntfyCalls' = IF o.alert THEN 1 ELSE 0
               /\ ntfyIn' = IF o.alert THEN <<ntfyOpts>> ELSE <<>>
               /\ ntfyOut' = alert.sent
               /\ ntfyErr' = alert.err
               /\ IF h.exit = <<>> THEN Return(Poll) ELSE UNCHANGED <<sched, pc>>
               /\ UNCHANGED <<knownIssues, clusterState>>
    /\ UNCHANGED <<envVars, tickers, passVars, emitVars, haOut, listFailed,
                   totalIssues>>

\* ---------------------------------------------------------- specifications

\* The poll as the scheduler runs it.
PollTask == ghPullRequestsCheck /\ UNCHANGED histVars

Next ==
    \/ \E t \in Tasks : Dispatch(t)
    \/ haUpdateBulb
    \/ clusterChecksConfig
    \/ clusterChecksNodes
    \/ clusterChecksPods
    \/ clusterChecksEvents
    \/ clusterChecksDerive
    \/ PollTask
    \/ Quit
    \/ MainBlocked

Spec == Init /\ [][Next]_vars

\* The scheduler in the environments of the lighting options.
SpecEmit == InitEmit /\ [][Next]_vars

\* The polls alone, in any environment, with the history of the PR flag: the
\* flag after each poll, and the polls that called SendNtfyAlert.
DispatchPoll ==
    /\ Len(flagTrace) <= MaxPolls
    /\ Dispatch(Poll)

PollTraced ==
    /\ ghPullRequestsCheck
    /\ flagTrace' = Append(flagTrace, ghPRState')
    /\ ntfyAt' = IF ntfyCalls' > 0 THEN ntfyAt \cup {Len(flagTrace')} ELSE ntfyAt
    /\ UNCHANGED <<lastVerdict, passFailures>>

NextPoll == DispatchPoll \/ PollTraced

SpecPoll == InitAny /\ [][NextPoll]_vars


\* SendNtfyAlert on its own, in any environment: the NtfyOptions a caller can
\* pass, with and without a server and a topic and with the priorities
\* around the valid range.
NtfyOptionsSet ==
    [Server : {"", "https://ntfy.example"}, Topic : {"", "alerts"},
     Title : {"ntfyTitle Text"},
     Priority : (ntfyPriorityMin - 1)..(ntfyPriorityMax + 1),
     Icon : {""}, Tags : {""}]

SendNtfyAlertCall ==
    /\ ntfyCalls = 0
    /\ \E opts \in NtfyOptionsSet :
       \E reply \in NtfyReplies :
          LET alert == SendNtfyAlert("message", opts, ntfyUrlEnv, ntfyTopicEnv,
                                     reply)
          IN /\ ntfyIn' = <<opts>>
             /\ ntfyCalls' = 1
             /\ ntfyOut' = alert.sent
             /\ ntfyErr' = alert.err
    /\ UNCHANGED <<envVars, sharedVars, errorCount, schedVars, passVars, emitVars,
                   haOut, pollResult, listFailed, totalIssues, fetched, histVars>>

SpecNtfy == InitAny /\ [][SendNtfyAlertCall]_vars

\* The collection passes and the polls, with the history of the passes: what
\* each collector found for every key it considered, in the order it
\* considered them, as pairs <<key, unhealthy>>.
nodeVerdicts(listing) ==
    IF listing.err THEN <<>>
    ELSE [i \in 1..Len(listing.items) |->
             <<"node/" \o listing.items[i].Name, ~nodeReady(listing.items[i])>>]

podUnhealthy(pod) ==
    ~(pod.Phase = "Succeeded" \/ (pod.Phase = "Running" /\ allReady(pod)))

podVerdicts(listing) ==
    IF listing.err THEN <<>>
    ELSE [i \in 1..Len(listing.items) |->
             <<"pod/" \o listing.items[i].Namespace \o "/" \o listing.items[i].Name,
               podUnhealthy(listing.items[i])>>]

eventKey(e) == e.Namespace \o "/" \o e.InvolvedObject.Name \o ":" \o e.Reason

\* The events the loop of checkEvents does not skip: warnings of the last
\* ten seconds, the first of each key.
RECURSIVE eventVerdictsLoop(_, _, _, _)
eventVerdictsLoop(items, seen, getPod, getNode) ==
    IF items = <<>> THEN <<>>
    ELSE LET e == Head(items)
         IN IF e.Type # "Warning" \/ e.Age > Lookback \/ eventKey(e) \in seen
            THEN eventVerdictsLoop(Tail(items), seen, getPod, getNode)
            ELSE <<<<eventKey(e), isResourceUnhealthy(e, getPod, getNode)>>>>
                    \o eventVerdictsLoop(Tail(items), seen \cup {eventKey(e)},
                                         getPod, getNode)

eventVerdicts(listing, getPod, getNode) ==
    IF listing.err THEN <<>>
    ELSE eventVerdictsLoop(listing.items, {}, getPod, getNode)

\* The latest verdict of each key after these verdicts.
RECURSIVE Recorded(_, _)
Recorded(hist, verdicts) ==
    IF verdicts = <<>> THEN hist
    ELSE LET v == Head(verdicts)
         IN Recorded([k \in (DOMAIN hist) \cup {v[1]} |->
                         IF k = v[1] THEN v[2] ELSE hist[k]],
                     Tail(verdicts))

NodesTraced ==
    \E listing \in NodeListings :
        /\ clusterChecksNodesOn(listing)
        /\ lastVerdict' = Recorded(lastVerdict, nodeVerdicts(listing))
        /\ passFailures' = IF listing.err THEN {"nodes"} ELSE {}
        /\ UNCHANGED <<flagTrace, ntfyAt>>

PodsTraced ==
    \E listing \in PodListings :
        /\ clusterChecksPodsOn(listing)
        /\ lastVerdict' = Recorded(lastVerdict, podVerdicts(listing))
        /\ passFailures' = IF listing.err THEN passFailures \cup {"pods"}
                           ELSE passFailures
        /\ UNCHANGED <<flagTrace, ntfyAt>>

EventsTraced ==
    \E listing \in EventListings :
    \E getPod \in PodGetsFor(listing) :
    \E getNode \in NodeGetsFor(listing) :
        /\ clusterChecksEventsOn(listing, getPod, getNode)
        /\ lastVerdict' = Recorded(lastVerdict,
                                   eventVerdicts(listing, getPod, getNode))
        /\ passFailures' = IF listing.err THEN passFailures \cup {"events"}
                           ELSE passFailures
        /\ UNCHANGED <<flagTrace, ntfyAt>>

NextPass ==
    \/ \E t \in {Collect, Poll} : Dispatch(t)
    \/ clusterChecksConfig
    \/ NodesTraced
    \/ PodsTraced
    \/ EventsTraced
    \/ clusterChecksDerive
    \/ PollTask

SpecPass == Init /\ [][NextPass]_vars

\* -------------------------------------------------------------- properties

\* A step that ends the call of task t.
Returns(t) == pc[t] # "idle" /\ pc'[t] = "idle"

\* The derivation rule as the design states it.
derive(total, prOpen) ==
    CASE total = 0 /\ ~prOpen -> Healthy
      [] total = 0 /\ prOpen -> PullRequestsOpen
      [] total > 0 /\ ~prOpen -> IssuesDetected
      [] total > 0 /\ prOpen -> Both

\* C1: the step that completes a collection pass leaves clusterState equal to
\* derive(totalIssues, prOpen), totalIssues being the number of issues the
\* three collectors returned in the pass and prOpen the PR flag then.
C1_StateIsDerived ==
    [][Returns(Collect) =>
          /\ totalIssues' = Len(nodeIssues) + Len(podIssues) + Len(eventIssues)
          /\ clusterState' = derive(totalIssues', ghPRState' = "open")]_vars

\* A pass has just found issues while pull requests are open.
C1_Witness ==
    /\ sched = "select"
    /\ totalIssues > 0
    /\ ghPRState = "open"
    /\ clusterState = Both

\* C2: an emitter tick that sees Both emits blue when the last color was red,
\* and when the tick before it saw Both too it emits the other one of red
\* and blue.
C2_BlinkAlternation ==
    [][(Returns(Emit) /\ clusterState = Both) =>
          /\ haArgs = Red => haArgs' = Blue
          /\ blinkRun >= 1 =>
                /\ haArgs' # haArgs
                /\ {haArgs, haArgs'} = {Red, Blue}]_vars

\* Two ticks in a row saw Both and the second emitted red, so the first
\* emitted blue after red.
C2_Witness ==
    /\ blinkRun = MaxBlink
    /\ clusterState = Both
    /\ haArgs = Red
    /\ haLastColorState = IssuesDetected

\* C7: every emitter tick hands haSetBulbColors the color of the cluster
\* state: green for healthy, blue for open pull requests, red for issues, red
\* or blue for both; a command that is sent carries that color.
C7_ColorOfState ==
    [][Returns(Emit) =>
          /\ clusterState = Healthy => haArgs' = Green
          /\ clusterState = PullRequestsOpen => haArgs' = Blue
          /\ clusterState = IssuesDetected => haArgs' = Red
          /\ clusterState = Both => haArgs' \in {Red, Blue}
          /\ \A i \in DOMAIN haOut' : haOut'[i].rgb_color = haArgs']_vars

\* A tick has just sent blue for open pull requests.
C7_Witness ==
    /\ clusterState = PullRequestsOpen
    /\ haArgs = Blue
    /\ Len(haOut) = 1
    /\ haOut[1].rgb_color = Blue

\* The polls whose flag went from none to open.
Edges(trace) ==
    {i \in 2..Len(trace) : trace[i - 1] = "none" /\ trace[i] = "open"}

\* C3: over any sequence of polls, the polls that raise a notification (call
\* SendNtfyAlert) are those that take the PR flag from none to open; for the
\* flags none, open, open, open, none, open these are positions 2 and 6.
C3_EdgeTriggered ==
    /\ ntfyAt = Edges(flagTrace)
    /\ flagTrace = <<"none", "open", "open", "open", "none", "open">>
          => ntfyAt = {2, 6}

C3_Witness ==
    /\ flagTrace = <<"none", "open", "open", "open", "none", "open">>
    /\ ntfyAt = {2, 6}

\* C4: errorCount never decreases, a successful poll leaves it alone, and
\* a failed poll ends the process, with status 1, exactly when it takes the
\* count to errorLimit.
C4_ErrorBudget ==
    [][/\ errorCount' >= errorCount
       /\ (Returns(Poll) /\ pollResult' \in {"ok", "skipped"})
             => errorCount' = errorCount /\ exitCode' = <<>>
       /\ errorCount' # errorCount =>
             /\ errorCount' = errorCount + 1
             /\ errorCount' < errorLimit => exitCode' = <<>>
             /\ errorCount' = errorLimit => exitCode' = <<ExitFailure>>
       /\ (pc[Poll] = "run" /\ exitCode' # exitCode)
             => errorCount' = errorLimit /\ errorCount = errorLimit - 1]_vars

\* The fifth failure has ended the process, with successful polls between
\* the failures.
C4_Witness ==
    /\ errorCount = errorLimit
    /\ exitCode = <<ExitFailure>>
    /\ ghPRState = "open"

\* C5: a collector whose listing fails returns no issue, leaves knownIssues
\* as it was and does not end the process.
C5_FailOpen ==
    [][/\ (pc[Collect] = "checkNodes" /\ pc'[Collect] = "checkPods" /\ listFailed')
             => nodeIssues' = <<>> /\ knownIssues' = knownIssues /\ exitCode' = <<>>
       /\ (pc[Collect] = "checkPods" /\ pc'[Collect] = "checkEvents" /\ listFailed')
             => podIssues' = <<>> /\ knownIssues' = knownIssues /\ exitCode' = <<>>
       /\ (pc[Collect] = "checkEvents" /\ pc'[Collect] = "derive" /\ listFailed')
             => eventIssues' = <<>> /\ knownIssues' = knownIssues /\ exitCode' = <<>>
      ]_vars

\* The node listing has just failed in a pass that follows one that reported
\* node/worker-1.
C5_Witness ==
    /\ pc[Collect] = "checkPods"
    /\ listFailed
    /\ nodeIssues = <<>>
    /\ "node/worker-1" \in knownIssues

FetchFailures == {"request", "transport", "status", "decode"}

\* C6: a poll whose fetch fails changes errorCount and nothing else of the
\* program's data: the PR flag, the stored list, the cluster state and the
\* registry are as before, and SendNtfyAlert is not called.
C6_FailedPollFrame ==
    [][(pc[Poll] = "run" /\ pollResult' \in FetchFailures) =>
          /\ UNCHANGED <<ghPRState, pullRequests, clusterState, knownIssues,
                         haLastColorState>>
          /\ errorCount' = errorCount + 1
          /\ ntfyCalls' = 0
          /\ ntfyOut' = <<>>]_vars

\* A fetch has just failed while pull requests were stored and the state
\* was Both.
C6_Witness ==
    /\ pollResult = "status"
    /\ sched = "select"
    /\ ghPRState = "open"
    /\ Len(pullRequests) = 2
    /\ clusterState = Both

\* C8: no two tasks execute at the same time, and a step that changes the
\* registry, the cluster state, the PR flag or the stored list is a step of
\* the one task that is executing.
C8_MutualExclusion ==
    /\ [](Cardinality(running) <= 1)
    /\ [][sharedVars' # sharedVars =>
             /\ Cardinality(running) = 1
             /\ sched = "task"
             /\ running' \subseteq running]_vars

\* clusterChecks is executing alone and has written the registry.
C8_Witness ==
    /\ running = {Collect}
    /\ pc[Collect] = "checkPods"
    /\ knownIssues # {}

\* C9: once the shutdown signal is received the tickers are stopped, the loop
\* is left, no task runs, and the process ends with exit code 0.
C9_CleanShutdown ==
    sched = "stopped" =>
        /\ \A t \in Tasks : tickers[t] = "stopped"
        /\ running = {}
        /\ exitCode \in {<<>>, <<0>>}

\* The keys the collectors of the model can report.
IssueKeys ==
    {"node/worker-1", "pod/ns1/pod-a", "ns1/pod-a:BackOff",
     "default/worker-1:NodeNotReady"}

\* C10: on every registry the program reaches and for every key, report then
\* clear leaves the key out; a second report, and a second clear, change
\* neither the members nor their number; and neither changes whether another
\* key is a member.
C10_RegistryAlgebra ==
    \A k \in IssueKeys :
        LET r == knownIssues
            reported == reportIssue(r, k)
            cleared == clearIssue(r, k)
        IN /\ k \notin clearIssue(reported, k)
           /\ k \in reported
           /\ reportIssue(reported, k) = reported
           /\ Cardinality(reportIssue(reported, k)) = Cardinality(reported)
           /\ clearIssue(cleared, k) = cleared
           /\ Cardinality(clearIssue(cleared, k)) = Cardinality(cleared)
           /\ \A j \in IssueKeys \ {k} :
                 /\ j \in reported <=> j \in r
                 /\ j \in cleared <=> j \in r

\* The collectors have reported the node and an event and cleared the pod.
C10_Witness ==
    /\ knownIssues = {"node/worker-1", "ns1/pod-a:BackOff"}
    /\ sched = "select"

\* C11: with NTFY_URL and NTFY_TOPIC both set and the priority within 1..5,
\* a poll that takes the PR flag from none to open sends one request, to
\* <server>/<topic>.
C11_AlertIsSent ==
    [][(/\ pc[Poll] = "run"
        /\ ghPRState = "none"
        /\ ghPRState' = "open"
        /\ ntfyUrlEnv # ""
        /\ ntfyTopicEnv # ""
        /\ ntfyOptsPriority >= ntfyPriorityMin
        /\ ntfyOptsPriority <= ntfyPriorityMax) =>
          /\ Len(ntfyOut') = 1
          /\ ntfyOut'[1].url = ntfyUrlEnv \o "/" \o ntfyTopicEnv]_vars

\* The server and the topic a call of SendNtfyAlert is to use: those of its
\* options, or else those of the environment.
ntfyServerOf(opts) == IF opts.Server # "" THEN opts.Server ELSE ntfyUrlEnv

ntfyTopicOf(opts) == IF opts.Topic # "" THEN opts.Topic ELSE ntfyTopicEnv

\* C12: a call of SendNtfyAlert with no server returns nil and sends nothing;
\* with a server and no topic it returns an error and sends nothing; with a
\* server and a priority outside 1..5 it returns an error and sends nothing.
C12_NtfyValidation ==
    ntfyCalls = 1 =>
        LET opts == ntfyIn[1]
        IN /\ ntfyServerOf(opts) = "" => ntfyErr = "" /\ ntfyOut = <<>>
           /\ (ntfyServerOf(opts) # "" /\ ntfyTopicOf(opts) = "")
                 => ntfyErr # "" /\ ntfyOut = <<>>
           /\ (/\ ntfyServerOf(opts) # ""
               /\ \/ opts.Priority < ntfyPriorityMin
                  \/ opts.Priority > ntfyPriorityMax)
                 => ntfyErr # "" /\ ntfyOut = <<>>

\* A call with a server, a topic and priority 6 has returned the priority
\* error.
C12_Witness ==
    /\ ntfyCalls = 1
    /\ ntfyIn[1].Server = "https://ntfy.example"
    /\ ntfyIn[1].Topic = "alerts"
    /\ ntfyIn[1].Priority = ntfyPriorityMax + 1
    /\ ntfyErr = "priority must be between 1 and 5"
    /\ ntfyOut = <<>>

\* Whether the three lighting options are set.
haConfigured == haToken # "" /\ haUrl # "" /\ haLightEntityId # ""

C14_StoredListReplaced ==
    [][(pc[Poll] = "run" /\ pollResult' = "ok") =>
          /\ Len(pullRequests') = Len(fetched')
          /\ \A i \in 1..Len(fetched') :
                pullRequests'[i].Key = "pr/" \o ToString(fetched'[i].Number)
          /\ fetched' = <<>> => pullRequests' = <<>>]_vars

\* C15: a pass in which the node, pod and event listings all fail, coming
\* after a pass that left the state IssuesDetected or Both, does not leave
\* the state Healthy or PullRequestsOpen.
C15_NoFalseHealed ==
    [][(/\ pc[Collect] = "derive"
        /\ pc'[Collect] = "idle"
        /\ passFailures = {"nodes", "pods", "events"}
        /\ clusterState \in {IssuesDetected, Both})
          => clusterState' \in {IssuesDetected, Both}]_vars

\* C16: at every point of every sequence of passes a key is in knownIssues
\* if and only if the latest consideration of it by a collector found its
\* resource unhealthy.
C16_RegistryInvariant ==
    /\ knownIssues \subseteq IssueKeys
    /\ DOMAIN lastVerdict \subseteq IssueKeys
    /\ \A k \in IssueKeys :
          k \in knownIssues <=> (k \in DOMAIN lastVerdict /\ lastVerdict[k])

\* The pod was reported by one pass and cleared by a later one, while the
\* node and the event stay reported through a pass whose listings failed.
C16_Witness ==
    /\ "pod/ns1/pod-a" \in DOMAIN lastVerdict
    /\ ~lastVerdict["pod/ns1/pod-a"]
    /\ knownIssues = {"node/worker-1", "ns1/pod-a:BackOff"}
    /\ passFailures = {"nodes", "pods", "events"}
    /\ pc[Collect] = "idle"
    /\ clusterState = Healthy

\* C17: while a task is inside its call (and so may be blocked in a network
\* call) the loop still takes the ticks of the other two tasks and runs
\* them.
C17_BlockingIsolated ==
    \A t \in Tasks :
        (pc[t] # "idle" /\ exitCode = <<>>) =>
            \A u \in Tasks \ {t} : ENABLED Dispatch(u)

\* A Get call that returns the object.
Got(obj) == [err |-> FALSE, obj |-> obj]

\* C18: isResourceUnhealthy finds a node, and a pod, unhealthy exactly when
\* checkNodes, and checkPods, report it; it finds an object of another kind
\* unhealthy; and checkEvents reports an event's key and returns an issue
\* when it finds the object unhealthy and clears the key otherwise.
C18_SameVerdict ==
    /\ \A n \in Nodes :
          isResourceUnhealthy(nodeEvent, GetError, Got(n))
              <=> ("node/" \o n.Name) \in checkNodes(Listing(<<n>>), {}).reg
    /\ \A p \in Pods :
          isResourceUnhealthy(podEvent, Got(p), GetError)
              <=> ("pod/" \o p.Namespace \o "/" \o p.Name)
                      \in checkPods(Listing(<<p>>), {}).reg
    /\ \A getPod \in PodGets : \A getNode \in NodeGets :
          isResourceUnhealthy(jobEvent, getPod, getNode)
    /\ \A e \in {podEvent, nodeEvent, jobEvent} :
       \A getPod \in PodGets : \A getNode \in NodeGets :
          LET r == checkEvents(Listing(<<e>>), getPod, getNode, knownIssues)
          IN IF isResourceUnhealthy(e, getPod, getNode)
             THEN /\ r.reg = knownIssues \cup {eventKey(e)}
                  /\ Len(r.issues) = 1
                  /\ r.issues[1].Key = eventKey(e)
             ELSE /\ r.reg = knownIssues \ {eventKey(e)}
                  /\ r.issues = <<>>

\* The pod rule with the messages beginning with prefix: what checkPods
\* makes of a listing of one pod on the registry as it is, and what the
\* running pass holds in podIssues.
PodIssueOf(p, prefix) ==
    LET name == p.Namespace \o "/" \o p.Name
    IN [Key |-> "pod/" \o name,
        Message |-> IF p.Phase = "Running"
                    THEN prefix \o name \o " has containers not ready"
                    ELSE prefix \o name \o " in unexpected phase: " \o p.Phase]

PodHealthy(p) ==
    \/ p.Phase = "Succeeded"
    \/ /\ p.Phase = "Running"
       /\ \A i \in DOMAIN p.ContainerStatuses : p.ContainerStatuses[i].Ready

PodRule(prefix) ==
    /\ \A p \in Pods :
          LET r == checkPods(Listing(<<p>>), knownIssues)
              want == PodIssueOf(p, prefix)
          IN IF PodHealthy(p)
             THEN r.reg = knownIssues \ {want.Key} /\ r.issues = <<>>
             ELSE /\ r.reg = knownIssues \cup {want.Key}
                  /\ Len(r.issues) = 1
                  /\ r.issues[1].Key = want.Key
                  /\ r.issues[1].Message = want.Message
    /\ \A i \in DOMAIN podIssues :
          \E p \in Pods :
              /\ ~PodHealthy(p)
              /\ podIssues[i].Key = PodIssueOf(p, prefix).Key
              /\ podIssues[i].Message = PodIssueOf(p, prefix).Message

\* C19: for a pod <ns>/<name> the key is pod/<ns>/<name>; a succeeded pod and
\* a running pod with all containers ready clear the key and yield no issue;
\* a running pod with a container not ready reports the key with the message
\* "<ns>/<name> has containers not ready"; a pod in another phase reports it
\* with "<ns>/<name> in unexpected phase: <phase>".
C19_PodRule == PodRule("")

\* C19 as amended: the same rule with the messages the collector writes,
\* "Pod <ns>/<name> has containers not ready" and
\* "Pod <ns>/<name> in unexpected phase: <phase>".
C19_PodRulePrefixed == PodRule("Pod ")

\* The pod collector has just reported the running pod with a container
\* that is not ready.
C19_Witness ==
    /\ pc[Collect] = "checkEvents"
    /\ Len(podIssues) = 1
    /\ podIssues[1].Message = "Pod ns1/pod-a has containers not ready"
    /\ "pod/ns1/pod-a" \in knownIssues

\* C20: a poll whose fetch succeeds and whose SendNtfyAlert returns an error
\* leaves errorCount as it was and does not end the process.
C20_AlertFailureNotCounted ==
    [][(/\ pc[Poll] = "run"
        /\ pollResult' = "ok"
        /\ ntfyCalls' = 1
        /\ ntfyErr' # "")
          => errorCount' = errorCount /\ exitCode' = <<>>]_vars

\* The alert has failed in a poll that came after four failed fetches, and
\* the process runs on.
C20_Witness ==
    /\ pollResult = "ok"
    /\ ntfyCalls = 1
    /\ ntfyErr # ""
    /\ errorCount = errorLimit - 1
    /\ exitCode = <<>>
    /\ sched = "select"

\* C21: the poll and the emitter tick leave clusterState as it is, and a step
\* that changes clusterState is the step that completes a collection pass; so
\* after a poll the state can disagree with the flag until the next pass.
C21_OnlyPassWritesState ==
    [][/\ (pc[Poll] = "run" \/ pc[Emit] = "run") => clusterState' = clusterState
       /\ clusterState' # clusterState =>
             /\ pc[Collect] = "derive"
             /\ pc'[Collect] = "idle"
             /\ clusterState' = deriveState(totalIssues', ghPRState)]_vars

\* A poll has just set the flag to open and the state is still the
\* IssuesDetected of the last pass, which no number of issues gives with
\* the flag open.
C21_Witness ==
    /\ pollResult = "ok"
    /\ sched = "select"
    /\ ghPRState = "open"
    /\ clusterState = IssuesDetected
    /\ \A total \in 0..3 : clusterState # derive(total, ghPRState = "open")

\* C22: a poll that finds pull requests with the flag none sets the flag to
\* open whatever SendNtfyAlert returns; a poll that starts with the flag open
\* does not call SendNtfyAlert; and the flag returns to none only by a poll
\* whose fetch succeeds and returns no pull request.
C22_NoRetryWhileOpen ==
    [][pc[Poll] = "run" =>
          /\ (ghPRState = "none" /\ pollResult' = "ok" /\ fetched' # <<>>)
                => ghPRState' = "open" /\ ntfyCalls' = 1
          /\ ghPRState = "open" => ntfyCalls' = 0 /\ ntfyOut' = <<>>
          /\ (ghPRState = "open" /\ ghPRState' = "none")
                => pollResult' = "ok" /\ fetched' = <<>>
          /\ ntfyCalls' = 1 => ghPRState = "none" /\ ghPRState' = "open"]_vars

\* The alert of the first edge was not sent, no poll tried again while the
\* flag was open, and the poll after the flag's return to none has tried
\* again and failed again.
C22_Witness ==
    /\ flagTrace = <<"none", "open", "open", "none", "open">>
    /\ ntfyAt = {2, 5}
    /\ pollResult = "ok"
    /\ ntfyCalls = 1
    /\ ntfyErr # ""
    /\ ntfyOut = <<>>
    /\ ghPRState = "open"

====
